---- MODULE Spec2Model ----
(***************************************************************************)
(* Post-processing of a solved oemof energy system                         *)
(* (src/src/tessif_oemof_4_4/post_process.py).                              *)
(*                                                                         *)
(* The state is the solved energy system handed to the Resultiers          *)
(* (optimized_es: typed nodes, edges, flow attributes, solver results) and *)
(* the mappings the Resultiers build from it.  Every mapping method is one *)
(* action, computed the way the method computes it.                        *)
(***************************************************************************)
EXTENDS Integers, Sequences, FiniteSets, TLC

(* ------------------------------ bounds --------------------------------- *)
\* number of timesteps of the solved system
MaxT == 2
\* largest flow / state of charge value of one timestep
MaxFlow == 1
\* largest nominal value (nominal_storage_capacity) of a flow (storage)
MaxNominal == 1
\* largest existing capacity of an investment object
MaxExisting == 1
\* largest 'invest' result of the solver
MaxInvest == 1
\* largest ep_costs of an investment object
MaxEpCosts == 1

(* ------------------------------ values --------------------------------- *)
\* python's None; esn_defs["variable_capacity"] and
\* esn_defs["characteristic_value"] are None
None == [t |-> "None"]
variable_capacity == None
characteristic_value_default == None
\* a python number
Num(x) == [t |-> "num", v |-> x]
\* esn_defs["expansion_costs"]
expansion_costs_default == Num(0)
\* a pd.Series keyed by neighbour label
Series(f) == [t |-> "Series", v |-> f]
\* a quotient of two numbers (a python float), kept exact
Frac(n, d) == [t |-> "frac", num |-> n, den |-> d]
\* an exception leaving a mapping method
Raised(e) == [t |-> "raised", e |-> e]
\* a python dict, as a function of its keys
Dict(f) == [t |-> "dict", v |-> f]
\* solph.Investment(existing=..., ep_costs=...)
Investment(ex, ep) == [t |-> "Investment", existing |-> ex, ep_costs |-> ep]
\* solph.Flow(nominal_value=..., investment=...)
Flow(nv, inv) == [nominal_value |-> nv, investment |-> inv]

IsNum(x) == x.t = "num"
IsSeries(x) == x.t = "Series"
IsRaised(x) == x.t = "raised"

RECURSIVE SumSeq(_)
SumSeq(s) == IF s = <<>> THEN 0 ELSE Head(s) + SumSeq(Tail(s))

RECURSIVE MaxSeq(_)
\* python's max() over a non-empty series
MaxSeq(s) ==
    IF Len(s) = 1 THEN s[1]
    ELSE LET m == MaxSeq(Tail(s)) IN IF Head(s) >= m THEN Head(s) ELSE m

RECURSIVE SumOver(_, _)
\* sum of f[x] over the finite set S
SumOver(S, f) ==
    IF S = {} THEN 0
    ELSE LET x == CHOOSE y \in S : TRUE IN f[x] + SumOver(S \ {x}, f)

(* --------------------------- the energy system -------------------------- *)
\* The system is one component between busses: "c" is the component, "b1"
\* and "b2" are the busses its characterizing flows go to or come from, "b3"
\* feeds a transformer.
Buses == {"b1", "b2", "b3"}
Component == "c"
Names == Buses \cup {Component}
\* the order optimized_es.nodes is iterated in
NodeOrder == <<"b1", "b2", "b3", "c">>

\* self._inflow_characterized_components
InflowCharacterized == {"Sink"}
\* self._outflow_characterized_components
OutflowCharacterized ==
    {"Transformer", "Source", "OffsetTransformer", "ExtractionTurbineCHP",
     "GenericCHP"}
\* the keys of OmfResultier.component_type_mapping
Kinds ==
    InflowCharacterized \cup OutflowCharacterized
    \cup {"Bus", "Link", "GenericStorage"}

VARIABLES
    optimized_es,            \* the solved energy system (never written)
    pc,                      \* the mapping the construction runs next
    loads,                   \* self._loads
    installed_capacities,    \* self._installed_capacities
    original_capacities,     \* self._original_capacities
    expansion_costs,         \* self._expansion_costs
    characteristic_values,   \* self._characteristic_values
    states_of_charge,        \* self._states_of_charge
    edges,                   \* self.edges
    specific_flow_costs,     \* self._specific_flow_costs
    specific_emissions,      \* self._specific_emissions
    global_results,          \* self._global_results
    uid_nodes,               \* self._uid_nodes
    component_nodes,         \* self._component_nodes
    sectored_nodes,          \* self._sectored_nodes
    regionalized_nodes,      \* self._regionalized_nodes
    coordinates,             \* self._coordinates
    carrier_grouped_nodes,   \* self._carrier_grouped_nodes
    node_energy_carriers,    \* self._node_energy_carriers
    typed_nodes              \* self._typed_nodes

\* the mappings of the load and capacity resultiers
capacity_vars ==
    <<loads, installed_capacities, original_capacities, expansion_costs,
      characteristic_values>>
\* the mapping of the storage resultier
storage_vars == <<states_of_charge>>
\* the mappings of the flow and global resultiers
flow_vars ==
    <<edges, specific_flow_costs, specific_emissions, global_results>>
\* the mappings of the node categorizer
node_vars ==
    <<uid_nodes, component_nodes, sectored_nodes, regionalized_nodes,
      coordinates, carrier_grouped_nodes, node_energy_carriers, typed_nodes>>

vars ==
    <<optimized_es, pc, capacity_vars, storage_vars, flow_vars, node_vars>>

\* node.inputs.keys() and node.outputs.keys(), by label
inputs(es, n) == {e[1] : e \in {d \in es.edges : d[2] = n}}
outputs(es, n) == {e[2] : e \in {d \in es.edges : d[1] = n}}

\* the timesteps of the results
T(es) == es.timesteps

Min(a, b) == IF a < b THEN a ELSE b

\* the time series of the solved system with values up to cap
FlowSeries(cap) == [1..MaxT -> 0..Min(cap, MaxFlow)]
\* the constant ones among them
ConstSeries(cap) == {[i \in 1..MaxT |-> k] : k \in 0..Min(cap, MaxFlow)}

Investments ==
    {Investment(ex, ep) : ex \in 0..MaxExisting, ep \in 1..MaxEpCosts}
\* the solver's 'invest' scalar of a flow: None when the results hold none
InvestResults == {None} \cup {Num(x) : x \in 0..MaxInvest}
InvestOr0(r) == IF r = None THEN 0 ELSE r.v

\* One characterizing edge as the solver leaves it: the flow's attributes, its
\* 'invest' scalar and its flow series.  A flow carries a nominal value or an
\* investment, never both, and the solver keeps it below the capacity.
EdgeChoices(constant) ==
    LET SeriesUpTo(cap) ==
            IF constant THEN ConstSeries(cap) ELSE FlowSeries(cap)
    IN  {[flow |-> Flow(None, None), invest |-> None, seq |-> s] :
            s \in SeriesUpTo(MaxFlow)}
        \cup UNION {
            {[flow |-> Flow(Num(x), None), invest |-> None, seq |-> s] :
                s \in SeriesUpTo(x)} : x \in 0..MaxNominal}
        \cup UNION {
            {[flow |-> Flow(None, iv[1]), invest |-> iv[2], seq |-> s] :
                s \in SeriesUpTo(InvestOr0(iv[2]) + iv[1].existing)} :
            iv \in Investments \X InvestResults}
RichEdges == EdgeChoices(FALSE)
\* the choices of a second characterizing edge: the extreme attributes with
\* a constant series
PlainEdges ==
    {c \in EdgeChoices(TRUE) :
        /\ c.flow.nominal_value \in {None, Num(MaxNominal)}
        /\ c.flow.investment \in {None, Investment(MaxExisting, MaxEpCosts)}
        /\ c.invest \in {None, Num(MaxInvest)}}

\* an edge that characterizes nothing (a transformer's input, a storage's
\* or a link's flows)
OtherEdge(s) ==
    [flow |-> Flow(None, None), invest |-> None, seq |-> s]

\* the storage's own attributes and results
StorageChoices ==
    UNION {
        {[investment |-> None, nominal_storage_capacity |-> Num(x),
          invest |-> None, soc |-> s] : s \in FlowSeries(x)} :
        x \in 0..MaxNominal}
    \cup UNION {
        {[investment |-> iv[1], nominal_storage_capacity |-> None,
          invest |-> Num(iv[2]), soc |-> s] :
            s \in FlowSeries(iv[2] + iv[1].existing)} :
        iv \in Investments \X (0..MaxInvest)}
NoStorage ==
    [investment |-> None, nominal_storage_capacity |-> None,
     invest |-> None, soc |-> <<>>]

\* The energy system of component kind k whose edges carry the choices ch
\* (a function from edges to edge choices).
EnergySystem(k, ch, st) ==
    [nodes |-> [n \in Names |-> IF n = Component THEN k ELSE "Bus"],
     edges |-> DOMAIN ch,
     flows |-> [e \in DOMAIN ch |-> ch[e].flow],
     storage |-> st,
     electrical_output |-> "b1",
     timesteps |-> MaxT,
     results |->
        [sequences |-> [e \in DOMAIN ch |-> ch[e].seq],
         scalars |->
            [e \in {d \in DOMAIN ch : ch[d].invest # None} |-> ch[e].invest.v],
         storage_content |-> st.soc,
         storage_invest |-> st.invest]]

\* per-timestep sum of two series
AddSeries(a, b) == [i \in 1..MaxT |-> a[i] + b[i]]
ZeroSeries == [i \in 1..MaxT |-> 0]

\* the edges of a component with its characterizing neighbours nb, a being
\* the choice of the edge to or from "b1" and b the one of "b2"
CharEdges(k, nb, a, b) ==
    LET e(n) == IF k \in InflowCharacterized THEN <<n, Component>>
                ELSE <<Component, n>>
        ch(n) == IF n = "b1" THEN a ELSE b
        fed == k \in OutflowCharacterized \ {"Source"}
        feed == IF "b2" \in nb THEN AddSeries(a.seq, b.seq) ELSE a.seq
    IN  [d \in {e(n) : n \in nb}
            \cup (IF fed THEN {<<"b3", Component>>} ELSE {}) |->
            IF d = <<"b3", Component>> THEN OtherEdge(feed)
            ELSE ch(IF k \in InflowCharacterized THEN d[1] ELSE d[2])]

\* the neighbour sets a component kind can have
Neighbours(k) ==
    CASE k \in {"GenericCHP", "ExtractionTurbineCHP"} -> {{"b1", "b2"}}
      [] k = "OffsetTransformer" -> {{"b1"}}
      [] OTHER -> {{"b1"}, {"b1", "b2"}}

\* a link between "b1" and "b2", carrying a in one direction
LinkEdges(a) ==
    (<<"b1", Component>> :> OtherEdge(a.seq)) @@ (<<Component, "b2">> :> a)
    @@ (<<"b2", Component>> :> OtherEdge(ZeroSeries))
    @@ (<<Component, "b1">> :> OtherEdge(ZeroSeries))

\* a storage charged from and discharged to "b1"
StorageEdges(s) ==
    (<<"b1", Component>> :> OtherEdge(s)) @@ (<<Component, "b1">> :> OtherEdge(s))

\* The solved systems post-processing is handed: every Sink has an input,
\* every Source and Transformer an output.
InitSystem(es) ==
    \/ \E k \in InflowCharacterized \cup OutflowCharacterized :
        \E nb \in Neighbours(k) :
        \E a \in RichEdges :
        \E b \in IF "b2" \in nb THEN PlainEdges ELSE {OtherEdge(ZeroSeries)} :
            es = EnergySystem(k, CharEdges(k, nb, a, b), NoStorage)
    \/ \E a \in PlainEdges : es = EnergySystem("Link", LinkEdges(a), NoStorage)
    \/ \E s \in ConstSeries(MaxFlow) : \E st \in StorageChoices :
            es = EnergySystem("GenericStorage", StorageEdges(s), st)

\* no mapping has been built yet
Unmapped ==
    /\ loads = None
    /\ installed_capacities = None
    /\ original_capacities = None
    /\ expansion_costs = None
    /\ characteristic_values = None
    /\ states_of_charge = None
    /\ edges = None
    /\ specific_flow_costs = None
    /\ specific_emissions = None
    /\ global_results = None
    /\ uid_nodes = None
    /\ component_nodes = None
    /\ sectored_nodes = None
    /\ regionalized_nodes = None
    /\ coordinates = None
    /\ carrier_grouped_nodes = None
    /\ node_energy_carriers = None
    /\ typed_nodes = None

Init ==
    /\ InitSystem(optimized_es)
    /\ pc = "loads"
    /\ Unmapped

(* ------------------------- LoadResultier ------------------------------- *)
\* the labels of S in the order the nodes are iterated in
Ordered(S) == SelectSeq(NodeOrder, LAMBDA x : x \in S)

\* a column label: a node name or an edge tuple (source, target)
NodeName(s) == [t |-> "str", v |-> s]
EdgeTuple(p) == [t |-> "tuple", v |-> p]

\* the result columns of the edges between n and the neighbours nbs, the
\* outflow to a neighbour before the inflow from it
RECURSIVE SequenceColumns(_, _, _)
SequenceColumns(es, n, nbs) ==
    IF nbs = <<>> THEN <<>>
    ELSE LET k == Head(nbs)
             outflow == IF k \in outputs(es, n)
                        THEN <<[key |-> <<n, k>>, result |-> "flow",
                                values |-> es.results.sequences[<<n, k>>]]>>
                        ELSE <<>>
             inflow == IF k \in inputs(es, n)
                       THEN <<[key |-> <<k, n>>, result |-> "flow",
                               values |-> es.results.sequences[<<k, n>>]]>>
                       ELSE <<>>
         IN  outflow \o inflow \o SequenceColumns(es, n, Tail(nbs))

\* solph.views.node(results, node)["sequences"]: the storage content of a
\* storage and one 'flow' column per edge of the node, in results order
views_node(es, n) ==
    (IF es.nodes[n] = "GenericStorage"
     THEN <<[key |-> <<n, "None">>, result |-> "storage_content",
             values |-> es.results.storage_content]>>
     ELSE <<>>)
    \o SequenceColumns(es, n, Ordered(inputs(es, n) \cup outputs(es, n)))

\* only the 'flow' columns, renamed to the edge's labels
FlowColumns(es, n) ==
    LET kept == SelectSeq(views_node(es, n), LAMBDA col : col.result = "flow")
    IN  [k \in 1..Len(kept) |->
            [name |-> EdgeTuple(kept[k].key), values |-> kept[k].values]]

\* the last n of the tuple col that differs from node, col when there is none
LastOther(col, node) ==
    IF col.v[2] # node THEN NodeName(col.v[2])
    ELSE IF col.v[1] # node THEN NodeName(col.v[1])
    ELSE col

\* the inflow renaming that leaves out every column naming an output
InflowNameAnyOutput(es, node, col) ==
    IF \E x \in outputs(es, node) : x \in {col.v[1], col.v[2]} THEN col
    ELSE LastOther(col, node)

\* the name of column col after the renaming of the inflow columns: the
\* neighbour, unless the column's target is an output of the node
InflowName(es, node, col) ==
    IF \E x \in outputs(es, node) : x = col.v[2] THEN col
    ELSE LastOther(col, node)

\* the name of the kept tuple column col after the renaming of the outflow
\* columns: the neighbour, unless the column's source is an input of the node
OutflowName(es, node, col) ==
    IF \E x \in inputs(es, node) : x = col.v[1] THEN col
    ELSE LastOther(col, node)

\* One node's load table: the columns renamed to a node name times -1, then
\* the columns still named by a tuple, renamed to the target.  A zero keeps
\* its value under the sign replacements.
NodeLoad(es, n) ==
    LET time_series_results ==
            [k \in DOMAIN FlowColumns(es, n) |->
                [name |-> InflowName(es, n, FlowColumns(es, n)[k].name),
                 values |-> FlowColumns(es, n)[k].values]]
        non_tuple == SelectSeq(time_series_results,
                                LAMBDA col : col.name.t # "tuple")
        tuples == SelectSeq(time_series_results,
                             LAMBDA col : col.name.t = "tuple")
        inflows ==
            [k \in DOMAIN non_tuple |->
                [name |-> non_tuple[k].name,
                 values |-> [i \in DOMAIN non_tuple[k].values |->
                                non_tuple[k].values[i] * (-1)]]]
        outflows ==
            [k \in DOMAIN tuples |->
                [name |-> OutflowName(es, n, tuples[k].name),
                 values |-> tuples[k].values]]
    IN  inflows \o outflows

_map_loads(es) == Dict([n \in DOMAIN es.nodes |-> NodeLoad(es, n)])

\* self.node_inflows[node][inflow]: the flow from inflow into node
node_inflows(es, n, i) == es.results.sequences[<<i, n>>]
\* self.node_outflows[node][outflow]: the flow from node to outflow
node_outflows(es, n, o) == es.results.sequences[<<n, o>>]
\* self.node_summed_loads[node]: per timestep, the sum of the node's
\* outflows, and of its inflows when it has no output
node_summed_loads(es, n) ==
    LET outs == outputs(es, n)
        ins == inputs(es, n)
    IN  [i \in 1..T(es) |->
            IF outs # {}
            THEN SumOver(outs, [o \in outs |-> node_outflows(es, n, o)[i]])
            ELSE SumOver(ins, [j \in ins |-> node_inflows(es, n, j)[i]])]

(* ------------------------ CapacityResultier ---------------------------- *)
\* scalar_results.get(((a, b), "invest"), 0)
InvestScalar(es, e) ==
    IF e \in DOMAIN es.results.scalars THEN es.results.scalars[e] ELSE 0

\* InflowInstalledCapacity with the inference from the observed flow left
\* out, as in the original capacities
InflowInstalledCapacityNotInferred(es, n, i) ==
    LET flow == es.flows[<<i, n>>]
        inv_obj == flow.investment
    IN  IF inv_obj # None
        THEN Num(InvestScalar(es, <<i, n>>) + inv_obj.existing)
        ELSE IF flow.nominal_value = variable_capacity
             THEN Num(0)
             ELSE flow.nominal_value

\* the installed capacity of the flow inflow -> node of a Sink
InflowInstalledCapacity(es, n, i) ==
    LET flow == es.flows[<<i, n>>]
        inv_obj == flow.investment
    IN  IF inv_obj # None
        THEN Num(InvestScalar(es, <<i, n>>) + inv_obj.existing)
        ELSE IF flow.nominal_value = variable_capacity
             THEN IF node_inflows(es, n, i) = <<>>
                  THEN Raised("ValueError")
                  ELSE Num(MaxSeq(node_inflows(es, n, i)))
             ELSE flow.nominal_value

\* OutflowInstalledCapacity with the existing capacity forgotten
OutflowInstalledCapacityNoExisting(es, n, o) ==
    LET flow == es.flows[<<n, o>>]
        inv_obj == flow.investment
        outflow_series == node_outflows(es, n, o)
    IN  IF inv_obj # None
        THEN Num(InvestScalar(es, <<n, o>>))
        ELSE IF flow.nominal_value = variable_capacity
             THEN IF outflow_series # <<>>
                  THEN Num(MaxSeq(outflow_series))
                  ELSE Num(0)
             ELSE flow.nominal_value

\* the installed capacity of the flow node -> outflow of a Source,
\* Transformer or CHP
OutflowInstalledCapacity(es, n, o) ==
    LET flow == es.flows[<<n, o>>]
        inv_obj == flow.investment
        outflow_series == node_outflows(es, n, o)
    IN  IF inv_obj # None
        THEN Num(InvestScalar(es, <<n, o>>) + inv_obj.existing)
        ELSE IF flow.nominal_value = variable_capacity
             THEN IF outflow_series # <<>>
                  THEN Num(MaxSeq(outflow_series))
                  ELSE Num(0)
             ELSE flow.nominal_value

\* Singular with the series kept for a single neighbour too
SingularAlwaysSeries(neighbours, d) ==
    IF \E k \in DOMAIN d : IsRaised(d[k])
    THEN d[CHOOSE k \in DOMAIN d : IsRaised(d[k])]
    ELSE Series(d)

\* A node's value out of the dict d of its neighbours' values:
\* pd.Series(d) for more than one neighbour, tuple(d.values())[0] otherwise.
Singular(neighbours, d) ==
    IF \E k \in DOMAIN d : IsRaised(d[k])
    THEN d[CHOOSE k \in DOMAIN d : IsRaised(d[k])]
    ELSE IF Cardinality(neighbours) > 1
         THEN Series(d)
         ELSE IF DOMAIN d = {}
              THEN Raised("IndexError")
              ELSE d[CHOOSE k \in DOMAIN d : TRUE]

\* the installed capacity of a GenericStorage
StorageInstalledCapacity(es) ==
    IF es.storage.investment # None
    THEN IF es.results.storage_invest = None
         THEN Raised("KeyError")
         ELSE Num(es.results.storage_invest.v + es.storage.investment.existing)
    ELSE es.storage.nominal_storage_capacity

NodeInstalledCapacity(es, n) ==
    LET kind == es.nodes[n]
    IN  CASE kind \in InflowCharacterized ->
                Singular(inputs(es, n),
                    [i \in inputs(es, n) |-> InflowInstalledCapacity(es, n, i)])
          [] kind \in OutflowCharacterized ->
                Singular(outputs(es, n),
                    [o \in outputs(es, n) |-> OutflowInstalledCapacity(es, n, o)])
          [] kind \in {"Bus", "Link"} -> variable_capacity
          [] kind = "GenericStorage" -> StorageInstalledCapacity(es)

\* the nodes of the kinds the capacity mappings know; a node of another
\* kind gets no entry
KnownNodes(es) == {n \in DOMAIN es.nodes : es.nodes[n] \in Kinds}

\* what a mapping method returns when its loop computes d[n] for node n:
\* the dict, or the exception one of the nodes raises
Mapped(d) ==
    IF \E n \in DOMAIN d : IsRaised(d[n])
    THEN d[CHOOSE n \in DOMAIN d : IsRaised(d[n])]
    ELSE Dict(d)

_map_installed_capacities(es) ==
    Mapped([n \in KnownNodes(es) |-> NodeInstalledCapacity(es, n)])

\* FlowOriginalCapacity with the invest result added, as in the installed
\* capacities
FlowOriginalCapacityWithInvest(es, e) ==
    LET flow == es.flows[e]
        inv_obj == flow.investment
    IN  IF inv_obj # None
        THEN Num(InvestScalar(es, e) + inv_obj.existing)
        ELSE IF flow.nominal_value = variable_capacity
             THEN Num(0)
             ELSE flow.nominal_value

\* the pre-optimization capacity of one characterizing flow
FlowOriginalCapacity(es, e) ==
    LET flow == es.flows[e]
        inv_obj == flow.investment
    IN  IF inv_obj # None
        THEN Num(inv_obj.existing)
        ELSE IF flow.nominal_value = variable_capacity
             THEN Num(0)
             ELSE flow.nominal_value

StorageOriginalCapacity(es) ==
    IF es.storage.investment # None
    THEN Num(es.storage.investment.existing)
    ELSE es.storage.nominal_storage_capacity

\* NodeOriginalCapacity with a Link taken for a Transformer
NodeOriginalCapacityLinkAsTransformer(es, n) ==
    LET kind == es.nodes[n]
    IN  CASE kind \in InflowCharacterized ->
                Singular(inputs(es, n),
                    [i \in inputs(es, n) |-> FlowOriginalCapacity(es, <<i, n>>)])
          [] kind \in OutflowCharacterized \cup {"Link"} ->
                Singular(outputs(es, n),
                    [o \in outputs(es, n) |-> FlowOriginalCapacity(es, <<n, o>>)])
          [] kind = "Bus" -> variable_capacity
          [] kind = "GenericStorage" -> StorageOriginalCapacity(es)

NodeOriginalCapacity(es, n) ==
    LET kind == es.nodes[n]
    IN  CASE kind \in InflowCharacterized ->
                Singular(inputs(es, n),
                    [i \in inputs(es, n) |-> FlowOriginalCapacity(es, <<i, n>>)])
          [] kind \in OutflowCharacterized ->
                Singular(outputs(es, n),
                    [o \in outputs(es, n) |-> FlowOriginalCapacity(es, <<n, o>>)])
          [] kind \in {"Bus", "Link"} -> variable_capacity
          [] kind = "GenericStorage" -> StorageOriginalCapacity(es)

_map_original_capacities(es) ==
    Mapped([n \in KnownNodes(es) |-> NodeOriginalCapacity(es, n)])

\* the flow's cost read from the investment's existing capacity
FlowExpansionCostExisting(es, e) ==
    LET inv_obj == es.flows[e].investment
    IN  IF inv_obj # None THEN Num(inv_obj.existing)
        ELSE expansion_costs_default

\* the expansion cost of one characterizing flow
FlowExpansionCost(es, e) ==
    LET inv_obj == es.flows[e].investment
    IN  IF inv_obj # None THEN Num(inv_obj.ep_costs)
        ELSE expansion_costs_default

StorageExpansionCost(es) ==
    IF es.storage.investment # None
    THEN Num(es.storage.investment.ep_costs)
    ELSE expansion_costs_default

NodeExpansionCosts(es, n) ==
    LET kind == es.nodes[n]
    IN  CASE kind \in InflowCharacterized ->
                Singular(inputs(es, n),
                    [i \in inputs(es, n) |-> FlowExpansionCost(es, <<i, n>>)])
          [] kind \in OutflowCharacterized ->
                Singular(outputs(es, n),
                    [o \in outputs(es, n) |-> FlowExpansionCost(es, <<n, o>>)])
          [] kind = "GenericStorage" -> StorageExpansionCost(es)
          [] OTHER -> expansion_costs_default

\* every node gets an entry, whatever its kind
_map_expansion_costs(es) ==
    Mapped([n \in DOMAIN es.nodes |-> NodeExpansionCosts(es, n)])

\* StorageResultier(optimized_es).node_soc: the storage content of every
\* GenericStorage
_map_states_of_charge(es) ==
    Dict([n \in {m \in DOMAIN es.nodes : es.nodes[m] = "GenericStorage"} |->
            es.results.storage_content])

\* series.mean(axis="index"), and a mean divided by a capacity
Mean(s) == Frac(SumSeq(s), Len(s))
Over(m, cap) == Frac(m.num, m.den * cap)

\* the characteristic value of a node with the singular capacity inst_cap
SingularCharacteristicValue(es, n, inst_cap) ==
    IF inst_cap # variable_capacity
    THEN LET characteristic_mean ==
                CASE es.nodes[n] = "GenericCHP" ->
                        Mean(node_outflows(es, n, es.electrical_output))
                  [] es.nodes[n] = "GenericStorage" ->
                        Mean(_map_states_of_charge(es).v[n])
                  [] OTHER -> Mean(node_summed_loads(es, n))
         IN  IF inst_cap.v = 0 THEN Frac(0, 1)
             ELSE Over(characteristic_mean, inst_cap.v)
    ELSE characteristic_value_default

\* the characteristic values of a node with a series of capacities: the mean
\* of the column idx of self._outflows[node] over the capacity of idx
SeriesCharacteristicValue(es, n, inst_cap) ==
    LET columns == outputs(es, n)
        caps == inst_cap.v
    IN  IF \E idx \in DOMAIN caps : caps[idx].v # 0 /\ idx \notin columns
        THEN Raised("KeyError")
        ELSE Series([idx \in DOMAIN caps |->
                IF caps[idx].v # 0
                THEN Over(Mean(node_outflows(es, n, idx)), caps[idx].v)
                ELSE Frac(0, 1)])

NodeCharacteristicValue(es, inst, n) ==
    IF n \notin DOMAIN inst
    THEN Raised("KeyError")
    ELSE IF ~IsSeries(inst[n])
         THEN SingularCharacteristicValue(es, n, inst[n])
         ELSE SeriesCharacteristicValue(es, n, inst[n])

\* reads self._installed_capacities
_map_characteristic_values(es, inst) ==
    Mapped([n \in DOMAIN es.nodes |-> NodeCharacteristicValue(es, inst, n)])

MapLoads ==
    /\ pc = "loads"
    /\ loads' = _map_loads(optimized_es)
    /\ pc' = "installed"
    /\ UNCHANGED <<optimized_es, installed_capacities, original_capacities,
                   expansion_costs, characteristic_values>>
    /\ UNCHANGED <<storage_vars, flow_vars, node_vars>>

MapInstalledCapacities ==
    /\ pc = "installed"
    /\ installed_capacities' = _map_installed_capacities(optimized_es)
    /\ pc' = IF IsRaised(installed_capacities') THEN "raised" ELSE "original"
    /\ UNCHANGED <<optimized_es, loads, original_capacities, expansion_costs,
                   characteristic_values>>
    /\ UNCHANGED <<storage_vars, flow_vars, node_vars>>

MapOriginalCapacities ==
    /\ pc = "original"
    /\ original_capacities' = _map_original_capacities(optimized_es)
    /\ pc' = IF IsRaised(original_capacities') THEN "raised" ELSE "expansion"
    /\ UNCHANGED <<optimized_es, loads, installed_capacities, expansion_costs,
                   characteristic_values>>
    /\ UNCHANGED <<storage_vars, flow_vars, node_vars>>

MapExpansionCosts ==
    /\ pc = "expansion"
    /\ expansion_costs' = _map_expansion_costs(optimized_es)
    /\ pc' = IF IsRaised(expansion_costs') THEN "raised" ELSE "characteristic"
    /\ UNCHANGED <<optimized_es, loads, installed_capacities,
                   original_capacities, characteristic_values>>
    /\ UNCHANGED <<storage_vars, flow_vars, node_vars>>

MapCharacteristicValues ==
    /\ pc = "characteristic"
    /\ characteristic_values' =
            _map_characteristic_values(optimized_es, installed_capacities.v)
    /\ pc' = IF IsRaised(characteristic_values') THEN "raised" ELSE "done"
    /\ UNCHANGED <<optimized_es, loads, installed_capacities,
                   original_capacities, expansion_costs>>
    /\ UNCHANGED <<storage_vars, flow_vars, node_vars>>

Next ==
    \/ MapLoads
    \/ MapInstalledCapacities
    \/ MapOriginalCapacities
    \/ MapExpansionCosts
    \/ MapCharacteristicValues

Spec == Init /\ [][Next]_vars
(* ------------- FlowResultier and IntegratedGlobalResultier ------------- *)
\* Costs, emissions and the objective are decimals with one binary place:
\* they are counted in halves, Half(h) being h / 2.
MaxCosts == 1
MaxEmissions == 1
MaxObjective == 1

Half(h) == Frac(h, 2)
\* a python list
List(s) == [t |-> "list", v |-> s]

\* the (inflow, node) pairs of the nodes ns, node by node
RECURSIVE InflowEdges(_, _)
InflowEdges(es, ns) ==
    IF ns = <<>> THEN <<>>
    ELSE LET node == Head(ns)
             ins == Ordered(inputs(es, node))
         IN  [k \in DOMAIN ins |-> <<ins[k], node>>]
                \o InflowEdges(es, Tail(ns))

\* _map_nodes: the node names in iteration order
_map_nodes(es) == Ordered(DOMAIN es.nodes)

\* the edge list with every edge as (node, inflow)
TargetFirstEdges(es) ==
    LET pairs == InflowEdges(es, _map_nodes(es))
    IN  List([k \in DOMAIN pairs |-> <<pairs[k][2], pairs[k][1]>>])

_map_edges(es) == List(InflowEdges(es, _map_nodes(es)))

\* getattr(flow, "variable_costs", 0)[0]: the first entry of the flow's
\* variable costs; the default 0 cannot be subscripted
SpecificFlowCost(es, e) ==
    IF "variable_costs" \in DOMAIN es.flows[e]
    THEN es.flows[e].variable_costs[1]
    ELSE Raised("TypeError")

_map_specific_flow_costs(es) ==
    Mapped([e \in {d \in DOMAIN es.flows : d[1] \in inputs(es, d[2])} |->
                SpecificFlowCost(es, e)])

\* getattr(flow, "emissions", 0)
SpecificEmissions(es, e) ==
    IF "emissions" \in DOMAIN es.flows[e]
    THEN es.flows[e].emissions
    ELSE Num(0)

_map_specific_emissions(es) ==
    Mapped([e \in {d \in DOMAIN es.flows : d[1] \in inputs(es, d[2])} |->
                SpecificEmissions(es, e)])

\* self.edge_net_energy_flow[edge]: the flow on the edge summed over the
\* timesteps
edge_net_energy_flow(es, e) == SumSeq(es.results.sequences[e])

\* the number of halves in x
InHalves(x) == IF x.t = "num" THEN 2 * x.v ELSE x.num

\* the halves of the value h / 2 as it is
Unrounded(h) == Half(h)

\* round(h / 2, 0): the nearest whole number, the even one of two
Round(h) ==
    LET q == h \div 2
    IN  Num(IF h % 2 = 0 \/ q % 2 = 0 THEN q ELSE q + 1)

\* the product of the first edge of edge_list only
FirstEdgeOnly(es, edge_list, specific) ==
    IF edge_list = <<>> THEN 0
    ELSE edge_net_energy_flow(es, Head(edge_list))
            * InHalves(specific[Head(edge_list)])

\* the loop over self.edges: net energy flow times the specific value of
\* every listed edge, in halves
SummedOverEdges(es, edge_list, specific) ==
    SumSeq([k \in DOMAIN edge_list |->
                edge_net_energy_flow(es, edge_list[k])
                    * InHalves(specific[edge_list[k]])])

\* the expansion of a node paid on its first neighbour only
NodeExpansionFirstOnly(final_capacity, initial_capacity, expansion_cost) ==
    IF final_capacity = None \/ initial_capacity = None THEN 0
    ELSE IF IsSeries(initial_capacity)
         THEN LET k == CHOOSE x \in DOMAIN initial_capacity.v : TRUE
              IN  (final_capacity.v[k].v - initial_capacity.v[k].v)
                        * expansion_cost.v[k].v
         ELSE (final_capacity.v - initial_capacity.v) * expansion_cost.v

\* node_expansion_costs of one node: the expansion times its cost, summed
\* over the neighbours of a series, and 0 without a capacity
NodeExpansion(final_capacity, initial_capacity, expansion_cost) ==
    IF final_capacity = None \/ initial_capacity = None THEN 0
    ELSE IF IsSeries(initial_capacity)
         THEN SumOver(DOMAIN initial_capacity.v,
                [k \in DOMAIN initial_capacity.v |->
                    (final_capacity.v[k].v - initial_capacity.v[k].v)
                        * expansion_cost.v[k].v])
         ELSE (final_capacity.v - initial_capacity.v) * expansion_cost.v

\* the four integrated results from the mappings of the flow and the
\* capacity resultier
IntegratedResults(es, edge_list, flow_results, cap_results) ==
    LET total_emissions ==
            SummedOverEdges(es, edge_list, flow_results.emissions.v)
        flow_costs == SummedOverEdges(es, edge_list, flow_results.costs.v)
        nodes == _map_nodes(es)
        capital_costs ==
            SumOver(DOMAIN nodes,
                [k \in DOMAIN nodes |->
                    NodeExpansion(cap_results.installed.v[nodes[k]],
                                  cap_results.original.v[nodes[k]],
                                  cap_results.expansion.v[nodes[k]])])
    IN  Dict(("emissions (sim)" :> Round(total_emissions))
             @@ ("costs (sim)" :> Round(InHalves(es.results.global.costs)))
             @@ ("opex (ppcd)" :> Round(flow_costs))
             @@ ("capex (ppcd)" :> Round(2 * capital_costs)))

\* FlowResultier(optimized_es) and CapacityResultier(optimized_es) are built
\* first; an exception of one of their mappings ends the method
_map_global_results(es, edge_list) ==
    LET costs == _map_specific_flow_costs(es)
        emissions == _map_specific_emissions(es)
        installed == _map_installed_capacities(es)
        original == _map_original_capacities(es)
        expansion == _map_expansion_costs(es)
    IN  CASE IsRaised(costs) -> costs
          [] IsRaised(emissions) -> emissions
          [] IsRaised(installed) -> installed
          [] IsRaised(original) -> original
          [] IsRaised(expansion) -> expansion
          [] IsRaised(_map_characteristic_values(es, installed.v)) ->
                _map_characteristic_values(es, installed.v)
          [] OTHER ->
                IntegratedResults(es, edge_list,
                    [costs |-> costs, emissions |-> emissions],
                    [installed |-> installed, original |-> original,
                     expansion |-> expansion])

\* the choices of the first edge of a system whose flows are priced: the
\* extreme attributes with a constant series, or no attribute with any series
PricedEdges ==
    PlainEdges \cup {c \in RichEdges : c.flow = Flow(None, None)}

\* the storages with a constant content
PlainStorages ==
    {st \in StorageChoices : \A i \in DOMAIN st.soc : st.soc[i] = st.soc[1]}

\* The system es with the flow attributes and the objective value added:
\* a flow at "b1" costs vc / 2 at the first timestep and has the emissions
\* em, and is without the attribute when vc or em is None; every other flow
\* has the greatest costs and emissions.
WithFlowAttributes(es, vc, em, objective) ==
    LET at_b1(e) == "b1" \in {e[1], e[2]}
        variable_costs(e) ==
            [i \in 1..MaxT |->
                Half(IF ~at_b1(e) THEN MaxCosts
                     ELSE IF i = 1 THEN vc.num ELSE MaxCosts - vc.num)]
        priced(e) ==
            IF at_b1(e) /\ vc = None THEN es.flows[e]
            ELSE es.flows[e] @@ [variable_costs |-> variable_costs(e)]
        attributed(e) ==
            IF ~at_b1(e) THEN priced(e) @@ [emissions |-> Half(MaxEmissions)]
            ELSE IF em = None THEN priced(e)
            ELSE priced(e) @@ [emissions |-> em]
    IN  [es EXCEPT
            !.flows = [e \in DOMAIN es.flows |-> attributed(e)],
            !.results = es.results @@ [global |-> [costs |-> Half(objective)]]]

\* the solved systems whose flows are priced with vc and em
PricedSystem(es, vc, em, objective) ==
    \/ \E k \in InflowCharacterized \cup OutflowCharacterized :
        \E nb \in Neighbours(k) :
        \E a \in PricedEdges :
        \E b \in IF "b2" \in nb THEN PlainEdges ELSE {OtherEdge(ZeroSeries)} :
            es = WithFlowAttributes(
                    EnergySystem(k, CharEdges(k, nb, a, b), NoStorage),
                    vc, em, objective)
    \/ \E a \in PlainEdges :
            es = WithFlowAttributes(
                    EnergySystem("Link", LinkEdges(a), NoStorage),
                    vc, em, objective)
    \/ \E s \in ConstSeries(MaxFlow) : \E st \in PlainStorages :
            es = WithFlowAttributes(
                    EnergySystem("GenericStorage", StorageEdges(s), st),
                    vc, em, objective)

InitFlow ==
    /\ \E vc \in {None} \cup {Half(x) : x \in 0..MaxCosts} :
       \E em \in {None} \cup {Half(x) : x \in 0..MaxEmissions} :
       \E objective \in 0..MaxObjective :
            PricedSystem(optimized_es, vc, em, objective)
    /\ pc = "edges"
    /\ Unmapped

MapEdges ==
    /\ pc = "edges"
    /\ edges' = _map_edges(optimized_es)
    /\ pc' = "flow_costs"
    /\ UNCHANGED <<optimized_es, capacity_vars, storage_vars, node_vars>>
    /\ UNCHANGED <<specific_flow_costs, specific_emissions, global_results>>

MapSpecificFlowCosts ==
    /\ pc = "flow_costs"
    /\ specific_flow_costs' = _map_specific_flow_costs(optimized_es)
    /\ pc' = "emissions"
    /\ UNCHANGED <<optimized_es, capacity_vars, storage_vars, node_vars>>
    /\ UNCHANGED <<edges, specific_emissions, global_results>>

MapSpecificEmissions ==
    /\ pc = "emissions"
    /\ specific_emissions' = _map_specific_emissions(optimized_es)
    /\ pc' = "global"
    /\ UNCHANGED <<optimized_es, capacity_vars, storage_vars, node_vars>>
    /\ UNCHANGED <<edges, specific_flow_costs, global_results>>

\* IntegratedGlobalResultier: self.edges is mapped before the global results
MapGlobalResults ==
    /\ pc = "global"
    /\ global_results' = _map_global_results(optimized_es, edges.v)
    /\ pc' = "done"
    /\ UNCHANGED <<optimized_es, capacity_vars, storage_vars, node_vars>>
    /\ UNCHANGED <<edges, specific_flow_costs, specific_emissions>>

NextFlow ==
    \/ MapEdges
    \/ MapSpecificFlowCosts
    \/ MapSpecificEmissions
    \/ MapGlobalResults

SpecFlow == InitFlow /\ [][NextFlow]_vars

(* ---------------- OmfResultier uids and NodeCategorizer ---------------- *)
\* A python string whose case matters: its letters in lower case and the
\* positions written in upper case.
PyStr(letters, upper) == [t |-> "str", letters |-> letters, upper |-> upper]
lower(s) == [s EXCEPT !.upper = {}]
capitalize(s) == [s EXCEPT !.upper = IF s.letters = "" THEN {} ELSE {1}]
Unspecified == PyStr("unspecified", {1})

\* hasattr(label, field)
hasattr(label, field) == field \in DOMAIN label

\* the fields of nts.Uid besides its class tag t
UidFields ==
    {"name", "latitude", "longitude", "region", "sector", "carrier",
     "component", "node_type"}

component_type_mapping(kind) ==
    CASE kind = "GenericStorage" -> PyStr("storage", {})
      [] kind \in {"ExtractionTurbineCHP", "GenericCHP", "OffsetTransformer",
                   "Transformer"} -> PyStr("transformer", {})
      [] kind = "Link" -> PyStr("connector", {})
      [] kind = "Bus" -> PyStr("bus", {})
      [] kind = "Sink" -> PyStr("sink", {})
      [] kind = "Source" -> PyStr("source", {})
      [] OTHER -> Raised("KeyError")

\* nts.Uid(**uid_dict): a Uid of the given fields, any other field at the
\* default of the class; a field Uid does not have is a TypeError
Uid(uid_dict) ==
    IF (DOMAIN uid_dict) \ {"t"} \subseteq UidFields
    THEN [f \in UidFields \cup {"t"} |->
            IF f = "t" THEN "Uid"
            ELSE IF f \in DOMAIN uid_dict THEN uid_dict[f]
            ELSE [t |-> "default"]]
    ELSE Raised("TypeError")

\* the uid of a node whatever its component: the label itself
NodeUidUnchanged(es, n) == es.labels[n]

\* the uid of one node
NodeUid(es, n) ==
    LET prelim_uid == es.labels[n]
    IN  IF ~hasattr(prelim_uid, "component") THEN Raised("AttributeError")
        ELSE IF prelim_uid.component = None
             THEN IF IsRaised(component_type_mapping(es.nodes[n]))
                  THEN component_type_mapping(es.nodes[n])
                  ELSE Uid([prelim_uid EXCEPT
                        !.component = component_type_mapping(es.nodes[n])])
             ELSE prelim_uid

_map_node_uids(es) == Mapped([n \in DOMAIN es.nodes |-> NodeUid(es, n)])

\* the dict of lists a grouping loop builds from the group key of every
\* node: each group lists its nodes in iteration order
Grouped(keys) ==
    Dict([g \in {keys[n] : n \in DOMAIN keys} |->
            Ordered({n \in DOMAIN keys : keys[n] = g})])

\* the component group of a label, None being no string
ComponentKey(label) ==
    IF hasattr(label, "component")
    THEN IF label.component = None THEN Raised("AttributeError")
         ELSE capitalize(lower(label.component))
    ELSE Unspecified

_map_node_components(es) ==
    LET keys == [n \in DOMAIN es.nodes |-> ComponentKey(es.labels[n])]
    IN  IF IsRaised(Mapped(keys)) THEN Mapped(keys) ELSE Grouped(keys)

\* the group of a label under one of its plain attributes
AttributeKey(label, field) ==
    IF hasattr(label, field) THEN label[field] ELSE "Unspecified"

_map_node_sectors(es) ==
    Grouped([n \in DOMAIN es.nodes |-> AttributeKey(es.labels[n], "sector")])

_map_node_regions(es) ==
    Grouped([n \in DOMAIN es.nodes |-> AttributeKey(es.labels[n], "region")])

Coordinates(latitude, longitude) ==
    [t |-> "Coordinates", latitude |-> latitude, longitude |-> longitude]

\* the coordinates of a label, the test asking for the latitude twice
NodeCoordinates(label) ==
    IF hasattr(label, "latitude") /\ hasattr(label, "latitude")
    THEN IF hasattr(label, "longitude")
         THEN Coordinates(label.latitude, label.longitude)
         ELSE Raised("AttributeError")
    ELSE Coordinates(None, None)

_map_node_coordinates(es) ==
    Mapped([n \in DOMAIN es.nodes |-> NodeCoordinates(es.labels[n])])

\* the first mapping _map_node_energy_carriers returns
CarrierGroupedNodes(es) ==
    Grouped([n \in DOMAIN es.nodes |-> AttributeKey(es.labels[n], "carrier")])

\* the second one
NodeEnergyCarriers(es) ==
    Dict([n \in DOMAIN es.nodes |-> AttributeKey(es.labels[n], "carrier")])

_map_node_types(es) ==
    Grouped([n \in DOMAIN es.nodes |->
                AttributeKey(es.labels[n], "node_type")])

\* a complete tessif Uid as the label of node n
UidLabel(n, component, sector) ==
    [t |-> "Uid", name |-> n, latitude |-> Num(53), longitude |-> Num(10),
     region |-> "north", sector |-> sector, carrier |-> "electricity",
     component |-> component, node_type |-> "hub"]

\* a label of another class: it names a component and has only the fields
\* of present among the optional ones
OtherLabel(n, component, present) ==
    LET full == UidLabel(n, component, "power")
    IN  [f \in {"t", "name", "component"} \cup present |->
            IF f = "t" THEN "Label" ELSE full[f]]

\* the labels the component can carry: a Uid with or without a component,
\* or a label of another class
ComponentLabels ==
    {UidLabel(Component, c, s) :
        c \in {None, PyStr("sink", {}), PyStr("sink", {1, 2, 3, 4})},
        s \in {"power", "heat"}}
    \cup {OtherLabel(Component, c, present) :
            c \in {PyStr("sink", {}), PyStr("sink", {1, 2, 3, 4})},
            present \in SUBSET (UidFields \ {"name", "component"})}

\* the storage of the labelled systems
EmptyStorage ==
    [investment |-> None, nominal_storage_capacity |-> Num(0),
     invest |-> None, soc |-> ZeroSeries]

\* the system of component kind k, nothing flowing
IdleSystem(k) ==
    CASE k = "Link" ->
            EnergySystem(k, LinkEdges(OtherEdge(ZeroSeries)), NoStorage)
      [] k = "GenericStorage" ->
            EnergySystem(k, StorageEdges(ZeroSeries), EmptyStorage)
      [] OTHER ->
            EnergySystem(k,
                CharEdges(k, CHOOSE nb \in Neighbours(k) : TRUE,
                          OtherEdge(ZeroSeries),
                          OtherEdge(ZeroSeries)),
                NoStorage)

\* the system es with the labels of its nodes: the component's label l, the
\* first bus with the component b, the other buses named as buses
Labelled(es, l, b) ==
    es @@ [labels |->
            [n \in DOMAIN es.nodes |->
                CASE n = Component -> l
                  [] n = "b1" -> UidLabel(n, b, "power")
                  [] OTHER -> UidLabel(n, PyStr("bus", {}), "heat")]]

InitNodes ==
    /\ \E k \in Kinds \ {"Bus"} :
       \E l \in ComponentLabels :
       \E b \in {None, PyStr("bus", {1})} :
            optimized_es = Labelled(IdleSystem(k), l, b)
    /\ pc = "uids"
    /\ Unmapped

MapNodeUids ==
    /\ pc = "uids"
    /\ uid_nodes' = _map_node_uids(optimized_es)
    /\ pc' = "components"
    /\ UNCHANGED <<optimized_es, capacity_vars, storage_vars, flow_vars>>
    /\ UNCHANGED <<component_nodes, sectored_nodes, regionalized_nodes,
                   coordinates, carrier_grouped_nodes, node_energy_carriers,
                   typed_nodes>>

MapNodeComponents ==
    /\ pc = "components"
    /\ component_nodes' = _map_node_components(optimized_es)
    /\ pc' = "sectors"
    /\ UNCHANGED <<optimized_es, capacity_vars, storage_vars, flow_vars>>
    /\ UNCHANGED <<uid_nodes, sectored_nodes, regionalized_nodes,
                   coordinates, carrier_grouped_nodes, node_energy_carriers,
                   typed_nodes>>

MapNodeSectors ==
    /\ pc = "sectors"
    /\ sectored_nodes' = _map_node_sectors(optimized_es)
    /\ pc' = "regions"
    /\ UNCHANGED <<optimized_es, capacity_vars, storage_vars, flow_vars>>
    /\ UNCHANGED <<uid_nodes, component_nodes, regionalized_nodes,
                   coordinates, carrier_grouped_nodes, node_energy_carriers,
                   typed_nodes>>

MapNodeRegions ==
    /\ pc = "regions"
    /\ regionalized_nodes' = _map_node_regions(optimized_es)
    /\ pc' = "coordinates"
    /\ UNCHANGED <<optimized_es, capacity_vars, storage_vars, flow_vars>>
    /\ UNCHANGED <<uid_nodes, component_nodes, sectored_nodes, coordinates,
                   carrier_grouped_nodes, node_energy_carriers, typed_nodes>>

MapNodeCoordinates ==
    /\ pc = "coordinates"
    /\ coordinates' = _map_node_coordinates(optimized_es)
    /\ pc' = "carriers"
    /\ UNCHANGED <<optimized_es, capacity_vars, storage_vars, flow_vars>>
    /\ UNCHANGED <<uid_nodes, component_nodes, sectored_nodes,
                   regionalized_nodes, carrier_grouped_nodes,
                   node_energy_carriers, typed_nodes>>

\* _map_node_energy_carriers returns both mappings at once
MapNodeEnergyCarriers ==
    /\ pc = "carriers"
    /\ carrier_grouped_nodes' = CarrierGroupedNodes(optimized_es)
    /\ node_energy_carriers' = NodeEnergyCarriers(optimized_es)
    /\ pc' = "types"
    /\ UNCHANGED <<optimized_es, capacity_vars, storage_vars, flow_vars>>
    /\ UNCHANGED <<uid_nodes, component_nodes, sectored_nodes,
                   regionalized_nodes, coordinates, typed_nodes>>

MapNodeTypes ==
    /\ pc = "types"
    /\ typed_nodes' = _map_node_types(optimized_es)
    /\ pc' = "done"
    /\ UNCHANGED <<optimized_es, capacity_vars, storage_vars, flow_vars>>
    /\ UNCHANGED <<uid_nodes, component_nodes, sectored_nodes,
                   regionalized_nodes, coordinates, carrier_grouped_nodes,
                   node_energy_carriers>>

\* Every mapping method is run on the system, whatever the one before it
\* returned or raised.
NextNodes ==
    \/ MapNodeUids
    \/ MapNodeComponents
    \/ MapNodeSectors
    \/ MapNodeRegions
    \/ MapNodeCoordinates
    \/ MapNodeEnergyCarriers
    \/ MapNodeTypes

SpecNodes == InitNodes /\ [][NextNodes]_vars

(* ---------------- the mapping methods called in any order --------------- *)
\* The solved systems every mapping method is called on: both
\* characterizing edges carry the same choice, every flow is priced.
CallableSystem(es) ==
    \/ \E k \in InflowCharacterized \cup OutflowCharacterized :
        \E nb \in Neighbours(k) :
        \E a \in PlainEdges :
            es = WithFlowAttributes(
                    EnergySystem(k, CharEdges(k, nb, a, a), NoStorage),
                    Half(MaxCosts), None, MaxObjective)
    \/ \E a \in PlainEdges :
            es = WithFlowAttributes(
                    EnergySystem("Link", LinkEdges(a), NoStorage),
                    Half(MaxCosts), None, MaxObjective)
    \/ \E s \in ConstSeries(MaxFlow) : \E st \in PlainStorages :
            es = WithFlowAttributes(
                    EnergySystem("GenericStorage", StorageEdges(s), st),
                    Half(MaxCosts), None, MaxObjective)

InitAny ==
    /\ CallableSystem(optimized_es)
    /\ pc = "any"
    /\ Unmapped

\* Each method reads the system and returns a new mapping; the frames it
\* renames in place are the ones solph.views.node builds for the call.
CallMapLoads ==
    /\ pc = "any"
    /\ loads' = _map_loads(optimized_es)
    /\ UNCHANGED <<optimized_es, pc, storage_vars, flow_vars, node_vars>>
    /\ UNCHANGED <<installed_capacities, original_capacities,
                   expansion_costs, characteristic_values>>

CallMapInstalledCapacities ==
    /\ pc = "any"
    /\ installed_capacities' = _map_installed_capacities(optimized_es)
    /\ UNCHANGED <<optimized_es, pc, storage_vars, flow_vars, node_vars>>
    /\ UNCHANGED <<loads, original_capacities, expansion_costs,
                   characteristic_values>>

CallMapOriginalCapacities ==
    /\ pc = "any"
    /\ original_capacities' = _map_original_capacities(optimized_es)
    /\ UNCHANGED <<optimized_es, pc, storage_vars, flow_vars, node_vars>>
    /\ UNCHANGED <<loads, installed_capacities, expansion_costs,
                   characteristic_values>>

CallMapExpansionCosts ==
    /\ pc = "any"
    /\ expansion_costs' = _map_expansion_costs(optimized_es)
    /\ UNCHANGED <<optimized_es, pc, storage_vars, flow_vars, node_vars>>
    /\ UNCHANGED <<loads, installed_capacities, original_capacities,
                   characteristic_values>>

\* reads self._installed_capacities, so it is called once they are mapped
CallMapCharacteristicValues ==
    /\ pc = "any"
    /\ installed_capacities # None /\ ~IsRaised(installed_capacities)
    /\ characteristic_values' =
            _map_characteristic_values(optimized_es, installed_capacities.v)
    /\ UNCHANGED <<optimized_es, pc, storage_vars, flow_vars, node_vars>>
    /\ UNCHANGED <<loads, installed_capacities, original_capacities,
                   expansion_costs>>

\* the call of _map_states_of_charge, were the renamed series the one of
\* the results: the storage content is no longer found under its key
CallMapStatesOfChargeInResults ==
    /\ pc = "any"
    /\ states_of_charge' = _map_states_of_charge(optimized_es)
    /\ optimized_es' =
            [optimized_es EXCEPT !.results.storage_content = <<>>]
    /\ UNCHANGED <<pc, capacity_vars, flow_vars, node_vars>>

CallMapStatesOfCharge ==
    /\ pc = "any"
    /\ states_of_charge' = _map_states_of_charge(optimized_es)
    /\ UNCHANGED <<optimized_es, pc, capacity_vars, flow_vars, node_vars>>

CallMapEdges ==
    /\ pc = "any"
    /\ edges' = _map_edges(optimized_es)
    /\ UNCHANGED <<optimized_es, pc, capacity_vars, storage_vars, node_vars>>
    /\ UNCHANGED <<specific_flow_costs, specific_emissions, global_results>>

CallMapSpecificFlowCosts ==
    /\ pc = "any"
    /\ specific_flow_costs' = _map_specific_flow_costs(optimized_es)
    /\ UNCHANGED <<optimized_es, pc, capacity_vars, storage_vars, node_vars>>
    /\ UNCHANGED <<edges, specific_emissions, global_results>>

CallMapSpecificEmissions ==
    /\ pc = "any"
    /\ specific_emissions' = _map_specific_emissions(optimized_es)
    /\ UNCHANGED <<optimized_es, pc, capacity_vars, storage_vars, node_vars>>
    /\ UNCHANGED <<edges, specific_flow_costs, global_results>>

\* reads self.edges, so it is called once they are mapped
CallMapGlobalResults ==
    /\ pc = "any"
    /\ edges # None
    /\ global_results' = _map_global_results(optimized_es, edges.v)
    /\ UNCHANGED <<optimized_es, pc, capacity_vars, storage_vars, node_vars>>
    /\ UNCHANGED <<edges, specific_flow_costs, specific_emissions>>

NextAny ==
    \/ CallMapLoads
    \/ CallMapInstalledCapacities
    \/ CallMapOriginalCapacities
    \/ CallMapExpansionCosts
    \/ CallMapCharacteristicValues
    \/ CallMapStatesOfCharge
    \/ CallMapEdges
    \/ CallMapSpecificFlowCosts
    \/ CallMapSpecificEmissions
    \/ CallMapGlobalResults

SpecAny == InitAny /\ [][NextAny]_vars

(* ------------------------------ claims --------------------------------- *)
\* The characterizing flows of the system: the inflows of every Sink and the
\* outflows of every Source, Transformer and CHP.
CharacterizingFlows(es) ==
    {[node |-> e[2], neighbour |-> e[1], edge |-> e] :
        e \in {d \in es.edges : es.nodes[d[2]] \in InflowCharacterized}}
    \cup {[node |-> e[1], neighbour |-> e[2], edge |-> e] :
        e \in {d \in es.edges : es.nodes[d[1]] \in OutflowCharacterized}}

\* the characterizing neighbours of a node
CharacterizingNeighbours(es, n) ==
    {f.neighbour : f \in {g \in CharacterizingFlows(es) : g.node = n}}

\* the entry of one flow in a node's value: the value itself when it is
\* singular, the neighbour's entry when it is a series
FlowEntry(v, neighbour) == IF IsSeries(v) THEN v.v[neighbour] ELSE v

IsDict(m) == m.t = "dict"

\* C1: every characterizing flow with an investment object has the installed
\* capacity 'invest' scalar of the flow (0 when the results hold none) plus
\* the investment's existing capacity.
C1_InvestedCapacity ==
    IsDict(installed_capacities) =>
        \A f \in CharacterizingFlows(optimized_es) :
            LET flow == optimized_es.flows[f.edge]
                scalars == optimized_es.results.scalars
                invest == IF f.edge \in DOMAIN scalars THEN scalars[f.edge] ELSE 0
            IN  flow.investment # None =>
                    FlowEntry(installed_capacities.v[f.node], f.neighbour)
                        = Num(invest + flow.investment.existing)

\* an invested flow with a positive invest result and a positive existing
\* capacity has been mapped
C1_Witness ==
    /\ IsDict(installed_capacities)
    /\ \E f \in CharacterizingFlows(optimized_es) :
        /\ optimized_es.flows[f.edge].investment # None
        /\ optimized_es.flows[f.edge].investment.existing > 0
        /\ f.edge \in DOMAIN optimized_es.results.scalars
        /\ optimized_es.results.scalars[f.edge] > 0

C4_BusAndLinkVariable ==
    \A n \in DOMAIN optimized_es.nodes :
        optimized_es.nodes[n] \in {"Bus", "Link"} =>
            /\ IsDict(installed_capacities) =>
                    installed_capacities.v[n] = variable_capacity
            /\ IsDict(original_capacities) =>
                    original_capacities.v[n] = variable_capacity

\* both capacities of a Link with an invested, used outflow have been mapped
C4_Witness ==
    /\ IsDict(installed_capacities) /\ IsDict(original_capacities)
    /\ optimized_es.nodes[Component] = "Link"
    /\ \E e \in optimized_es.edges :
        /\ optimized_es.flows[e].investment # None
        /\ optimized_es.results.sequences[e][1] > 0

\* a node characterized by its inflows or by its outflows
IsCharacterized(es, n) ==
    es.nodes[n] \in InflowCharacterized \cup OutflowCharacterized

\* the value v of a node has the shape its characterizing neighbours nb ask
\* for: one number for one neighbour, a series with one entry per neighbour
\* for several
Shaped(v, nb) ==
    IF Cardinality(nb) = 1
    THEN IsNum(v)
    ELSE IsSeries(v) /\ DOMAIN v.v = nb /\ \A k \in nb : IsNum(v.v[k])

\* C5: installed capacity, original capacity and expansion cost of every
\* Sink (by inputs) and Source/Transformer/CHP (by outputs) are one scalar
\* for one characterizing neighbour and otherwise a series keyed by exactly
\* the characterizing neighbours, the same for all three mappings.
C5_UniformShape ==
    \A n \in DOMAIN optimized_es.nodes :
        IsCharacterized(optimized_es, n) =>
            LET nb == CharacterizingNeighbours(optimized_es, n)
            IN  /\ IsDict(installed_capacities) =>
                        Shaped(installed_capacities.v[n], nb)
                /\ IsDict(original_capacities) =>
                        Shaped(original_capacities.v[n], nb)
                /\ IsDict(expansion_costs) =>
                        Shaped(expansion_costs.v[n], nb)

\* the three mappings of a node with two characterizing neighbours, one of
\* them invested, have been built
C5_Witness ==
    /\ IsDict(installed_capacities)
    /\ IsDict(original_capacities)
    /\ IsDict(expansion_costs)
    /\ Cardinality(CharacterizingNeighbours(optimized_es, Component)) = 2
    /\ \E f \in CharacterizingFlows(optimized_es) :
            optimized_es.flows[f.edge].investment # None

\* the keys of mapping m are exactly the node names
KeyedByNodes(m) == IsDict(m) /\ DOMAIN m.v = DOMAIN optimized_es.nodes

\* C6: once post-processing has ended, loads, installed capacities,
\* original capacities, expansion costs and characteristic values each have
\* exactly the node names as keys.
C6_EveryNodeMapped ==
    pc \in {"done", "raised"} =>
        /\ KeyedByNodes(loads)
        /\ KeyedByNodes(installed_capacities)
        /\ KeyedByNodes(original_capacities)
        /\ KeyedByNodes(expansion_costs)
        /\ KeyedByNodes(characteristic_values)

\* no capacity is defined for the node: a bus, or a source or sink none of
\* whose flows has a nominal value or an investment
NoCapacityDefined(es, n) ==
    \/ es.nodes[n] = "Bus"
    \/ /\ es.nodes[n] \in {"Source", "Sink"}
       /\ \A f \in CharacterizingFlows(es) :
            f.node = n => es.flows[f.edge] = Flow(None, None)

\* C7: a node for which no capacity is defined has the default
\* characteristic value None.
C7_VariableSizeHasDefault ==
    IsDict(characteristic_values) =>
        \A n \in DOMAIN optimized_es.nodes :
            NoCapacityDefined(optimized_es, n) =>
                characteristic_values.v[n] = characteristic_value_default

\* the value cv is the quotient num / den
IsQuotient(cv, num, den) == cv.t = "frac" /\ cv.num * den = num * cv.den

\* the sum over all timesteps of the flow on edge e
SummedFlow(es, e) ==
    SumOver(DOMAIN es.results.sequences[e], es.results.sequences[e])

\* the sum over all timesteps of the characteristic flow of node n: all
\* flows of a Source or Sink, the power outflow of a GenericCHP, the (0th)
\* outflow of the other transformers
SummedCharacteristicFlow(es, n) ==
    LET incident == {e \in es.edges : n \in {e[1], e[2]}}
    IN  CASE es.nodes[n] \in {"Source", "Sink"} ->
                SumOver(incident, [e \in incident |-> SummedFlow(es, e)])
          [] es.nodes[n] = "GenericCHP" ->
                SummedFlow(es, <<n, es.electrical_output>>)
          [] OTHER -> SummedFlow(es, <<n, Ordered(outputs(es, n))[1]>>)

\* C8: a Source, Sink, Transformer, CHP or OffsetTransformer with a
\* non-zero scalar installed capacity has the characteristic value
\* sum(characteristic flow) / installed capacity.
C8_SummedFlowOverCapacity ==
    IsDict(characteristic_values) =>
        \A n \in DOMAIN optimized_es.nodes :
            LET cap == installed_capacities.v[n]
            IN  (/\ IsCharacterized(optimized_es, n)
                 /\ IsNum(cap)
                 /\ cap.v # 0) =>
                    IsQuotient(characteristic_values.v[n],
                        SummedCharacteristicFlow(optimized_es, n), cap.v)

\* C9: a GenericStorage with a non-zero capacity has the characteristic
\* value sum(state of charge) / installed capacity.
C9_SummedSocOverCapacity ==
    IsDict(characteristic_values) =>
        \A n \in DOMAIN optimized_es.nodes :
            LET cap == installed_capacities.v[n]
                soc == optimized_es.results.storage_content
            IN  (/\ optimized_es.nodes[n] = "GenericStorage"
                 /\ IsNum(cap)
                 /\ cap.v # 0) =>
                    IsQuotient(characteristic_values.v[n],
                        SumOver(DOMAIN soc, soc), cap.v)

\* C10: once post-processing has ended, a node whose installed capacity is
\* a series has a series of characteristic values with the same keys, each
\* the flow on the edge to or from that neighbour (its mean over the
\* timesteps) over the neighbour's capacity, for a Sink with several inputs
\* as for a Source or Transformer with several outputs.
C10_SeriesPerNeighbour ==
    (pc \in {"done", "raised"} /\ IsDict(installed_capacities)) =>
        \A n \in DOMAIN optimized_es.nodes :
            LET caps == installed_capacities.v[n]
                edge(k) == IF optimized_es.nodes[n] \in InflowCharacterized
                           THEN <<k, n>> ELSE <<n, k>>
            IN  IsSeries(caps) =>
                    /\ IsDict(characteristic_values)
                    /\ IsSeries(characteristic_values.v[n])
                    /\ DOMAIN characteristic_values.v[n].v = DOMAIN caps.v
                    /\ \A k \in DOMAIN caps.v :
                        caps.v[k].v # 0 =>
                            IsQuotient(characteristic_values.v[n].v[k],
                                SummedFlow(optimized_es, edge(k)),
                                T(optimized_es) * caps.v[k].v)

\* ICRHybridier.node_characteristic_value: the property hands out the
\* characteristic values of the hybridier's capacity resultier
ICRHybridier_node_characteristic_value(caps) == caps

\* C11: a Link has the characteristic value sum(0th outflow) / installed
\* capacity in ICRHybridier.node_characteristic_value, like a Transformer.
C11_LinkSummedOutflow ==
    IsDict(characteristic_values) =>
        \A n \in DOMAIN optimized_es.nodes :
            LET cap == installed_capacities.v[n]
                cv == ICRHybridier_node_characteristic_value(
                            characteristic_values).v[n]
            IN  optimized_es.nodes[n] = "Link" =>
                    /\ IsNum(cap)
                    /\ IsQuotient(cv,
                            SummedCharacteristicFlow(optimized_es, n), cap.v)

\* C12: the expansion cost of every characterizing flow is the ep_costs of
\* its investment when it has one and the default otherwise; a
\* GenericStorage has the ep_costs of its own investment or the default;
\* every Bus and Link has the default.
C12_ExpansionCosts ==
    IsDict(expansion_costs) =>
        /\ \A f \in CharacterizingFlows(optimized_es) :
            LET inv_obj == optimized_es.flows[f.edge].investment
            IN  FlowEntry(expansion_costs.v[f.node], f.neighbour) =
                    IF inv_obj # None THEN Num(inv_obj.ep_costs)
                    ELSE expansion_costs_default
        /\ \A n \in DOMAIN optimized_es.nodes :
            LET kind == optimized_es.nodes[n]
                inv_obj == optimized_es.storage.investment
            IN  /\ kind = "GenericStorage" =>
                    expansion_costs.v[n] =
                        IF inv_obj # None THEN Num(inv_obj.ep_costs)
                        ELSE expansion_costs_default
                /\ kind \in {"Bus", "Link"} =>
                    expansion_costs.v[n] = expansion_costs_default

\* the costs of a node with one invested flow, whose ep_costs differ from
\* the default and from its existing capacity, and one flow without
\* investment have been mapped
C12_Witness ==
    /\ IsDict(expansion_costs)
    /\ \E f, g \in CharacterizingFlows(optimized_es) :
        /\ f.node = g.node
        /\ optimized_es.flows[f.edge].investment # None
        /\ optimized_es.flows[f.edge].investment.ep_costs > 0
        /\ optimized_es.flows[f.edge].investment.existing = 0
        /\ optimized_es.flows[g.edge].investment = None

\* the columns lo..hi of table tab are one column per node of names, named
\* by the node and holding sign times the flow on edge(node)
ColumnPerEdge(es, tab, lo, hi, names, sign, n, incoming) ==
    /\ hi - lo + 1 = Cardinality(names)
    /\ \A x \in names :
        LET e == IF incoming THEN <<x, n>> ELSE <<n, x>>
        IN  \E k \in lo..hi :
            /\ tab[k].name = NodeName(x)
            /\ DOMAIN tab[k].values = DOMAIN es.results.sequences[e]
            /\ \A i \in DOMAIN tab[k].values :
                    tab[k].values[i] = sign * es.results.sequences[e][i]
            /\ \A j \in lo..hi : tab[j].name = NodeName(x) => j = k

\* C13: the load table of every node has one column per input, named by the
\* source node and holding the flow times -1, followed by one column per
\* output, named by the target node and holding the flow, and no other
\* column, also when a neighbour is both input and output.
C13_ColumnPerIncidentEdge ==
    IsDict(loads) =>
        \A n \in DOMAIN optimized_es.nodes :
            LET tab == loads.v[n]
                ins == inputs(optimized_es, n)
                outs == outputs(optimized_es, n)
            IN  /\ Len(tab) = Cardinality(ins) + Cardinality(outs)
                /\ ColumnPerEdge(optimized_es, tab, 1, Cardinality(ins),
                                 ins, -1, n, TRUE)
                /\ ColumnPerEdge(optimized_es, tab, Cardinality(ins) + 1,
                                 Len(tab), outs, 1, n, FALSE)

\* the loads of a storage with a storage content, charged from and
\* discharged to the same bus with a positive flow, have been mapped
C13_Witness ==
    /\ IsDict(loads)
    /\ optimized_es.nodes[Component] = "GenericStorage"
    /\ optimized_es.results.storage_content # <<>>
    /\ \E k \in inputs(optimized_es, Component)
                    \cap outputs(optimized_es, Component) :
        /\ optimized_es.results.sequences[<<k, Component>>][1] > 0
        /\ optimized_es.results.sequences[<<Component, k>>][1] > 0

\* the (input, node) relations of the system as (source, target) pairs
InputRelations(es) ==
    {d \in (DOMAIN es.nodes) \X (DOMAIN es.nodes) : d[1] \in inputs(es, d[2])}

\* C14: the edge list holds exactly one edge (source name, target name) for
\* every (input, node) relation, and the specific flow costs and the
\* specific emissions are keyed by exactly the edges of that list.
C14_EdgesAndKeys ==
    LET listed == {edges.v[k] : k \in DOMAIN edges.v}
    IN  /\ edges # None =>
            /\ listed = InputRelations(optimized_es)
            /\ Len(edges.v) = Cardinality(InputRelations(optimized_es))
        /\ IsDict(specific_flow_costs) =>
            DOMAIN specific_flow_costs.v = listed
        /\ IsDict(specific_emissions) =>
            DOMAIN specific_emissions.v = listed

\* the edges, costs and emissions of a link, which has two buses as input
\* and as output each, one of its flows without emissions, have been mapped
C14_Witness ==
    /\ edges # None
    /\ IsDict(specific_flow_costs)
    /\ IsDict(specific_emissions)
    /\ optimized_es.nodes[Component] = "Link"
    /\ \E e \in optimized_es.edges : "emissions" \notin DOMAIN optimized_es.flows[e]

\* the number r is h / 2 rounded to the unit place
IsRounded(r, h) == r.t = "num" /\ 2 * r.v - h \in -1..1

\* the halves of the sum, over the edges of the system, of the net energy
\* flow times the edge's entry in the mapping specific
EdgeSum(es, specific) ==
    SumOver(es.edges,
        [e \in es.edges |->
            edge_net_energy_flow(es, e) * InHalves(specific.v[e])])

\* C15: 'emissions (sim)' is the rounded sum over all edges of net energy
\* flow times specific emissions and 'opex (ppcd)' the rounded sum of net
\* energy flow times specific flow costs, every edge counted once.
C15_EmissionsAndOpex ==
    IsDict(global_results) =>
        /\ IsRounded(global_results.v["emissions (sim)"],
                     EdgeSum(optimized_es, specific_emissions))
        /\ IsRounded(global_results.v["opex (ppcd)"],
                     EdgeSum(optimized_es, specific_flow_costs))

\* global results whose emissions and flow costs come from several edges
\* and lie halfway between two whole numbers have been built
C15_Witness ==
    /\ IsDict(global_results)
    /\ EdgeSum(optimized_es, specific_emissions) % 2 = 1
    /\ EdgeSum(optimized_es, specific_flow_costs) % 2 = 1
    /\ \E e, d \in optimized_es.edges :
        /\ e # d
        /\ edge_net_energy_flow(optimized_es, e)
                * InHalves(specific_emissions.v[e]) > 0
        /\ edge_net_energy_flow(optimized_es, d)
                * InHalves(specific_emissions.v[d]) > 0
        /\ edge_net_energy_flow(optimized_es, e)
                * InHalves(specific_flow_costs.v[e]) > 0
        /\ edge_net_energy_flow(optimized_es, d)
                * InHalves(specific_flow_costs.v[d]) > 0

\* the expansion of node n times its cost: summed over the characterizing
\* flows of a Sink, Source or Transformer, the storage's own, and 0 for a
\* node whose installed or original capacity is None
ExpansionPaid(es, n) ==
    LET final == _map_installed_capacities(es).v[n]
        initial == _map_original_capacities(es).v[n]
        cost == _map_expansion_costs(es).v[n]
        flows == {f \in CharacterizingFlows(es) : f.node = n}
    IN  IF final = None \/ initial = None THEN 0
        ELSE IF IsCharacterized(es, n)
             THEN SumOver(flows,
                    [f \in flows |->
                        (FlowEntry(final, f.neighbour).v
                            - FlowEntry(initial, f.neighbour).v)
                        * FlowEntry(cost, f.neighbour).v])
             ELSE (final.v - initial.v) * cost.v

\* C16: 'capex (ppcd)' is the rounded sum over all nodes of (installed -
\* original capacity) times expansion cost, 0 for a node whose installed or
\* original capacity is None and the sum of the products per neighbour for
\* a node with several characterizing neighbours.
C16_Capex ==
    IsDict(global_results) =>
        IsRounded(global_results.v["capex (ppcd)"],
            2 * SumOver(DOMAIN optimized_es.nodes,
                    [n \in DOMAIN optimized_es.nodes |->
                        ExpansionPaid(optimized_es, n)]))

\* the global results of a system have been built in which a node has
\* expanded the flows to two neighbours and a Bus has no capacity
C16_Witness ==
    /\ IsDict(global_results)
    /\ \E f, g \in CharacterizingFlows(optimized_es) :
        /\ f.node = g.node /\ f.neighbour # g.neighbour
        /\ \A h \in {f, g} :
            /\ optimized_es.flows[h.edge].investment # None
            /\ h.edge \in DOMAIN optimized_es.results.scalars
            /\ optimized_es.results.scalars[h.edge] > 0
    /\ \E n \in DOMAIN optimized_es.nodes :
            _map_installed_capacities(optimized_es).v[n] = None

ExpectedGroup(label, field) ==
    IF field = "component"
    THEN IF hasattr(label, field) /\ label.component # None
         THEN PyStr(label.component.letters, {1})
         ELSE Unspecified
    ELSE IF hasattr(label, field) THEN label[field] ELSE "Unspecified"

\* groups lists every node name once, in the group of its label
InOneGroup(groups, es, field) ==
    /\ IsDict(groups)
    /\ \A n \in DOMAIN es.nodes :
        /\ ExpectedGroup(es.labels[n], field) \in DOMAIN groups.v
        /\ \A g \in DOMAIN groups.v :
            Cardinality({k \in DOMAIN groups.v[g] : groups.v[g][k] = n}) =
                IF g = ExpectedGroup(es.labels[n], field) THEN 1 ELSE 0

\* C18: in each grouping of the NodeCategorizer (component, sector, region,
\* energy carrier, node type) every node name is in exactly one group: the
\* one named by the attribute of its label (the component capitalized), or
\* 'Unspecified' when the label has no such attribute or no component.
C18_OneGroupPerNode ==
    /\ component_nodes # None =>
            InOneGroup(component_nodes, optimized_es, "component")
    /\ sectored_nodes # None =>
            InOneGroup(sectored_nodes, optimized_es, "sector")
    /\ regionalized_nodes # None =>
            InOneGroup(regionalized_nodes, optimized_es, "region")
    /\ carrier_grouped_nodes # None =>
            InOneGroup(carrier_grouped_nodes, optimized_es, "carrier")
    /\ typed_nodes # None =>
            InOneGroup(typed_nodes, optimized_es, "node_type")

\* C19: every node has the coordinates (latitude, longitude) of its label
\* when the label has both and (None, None) when it lacks one of them; a
\* missing one never makes the mapping fail.
C19_CoordinatesOrNone ==
    coordinates # None =>
        /\ IsDict(coordinates)
        /\ \A n \in DOMAIN optimized_es.nodes :
            LET label == optimized_es.labels[n]
            IN  coordinates.v[n] =
                    IF hasattr(label, "latitude") /\ hasattr(label, "longitude")
                    THEN Coordinates(label.latitude, label.longitude)
                    ELSE Coordinates(None, None)

\* C20: every node has exactly one uid under its name: its label with the
\* component set to the kind of the node's class when the label's
\* component is None, and its label unchanged when it names a component.
C20_UidPerNode ==
    uid_nodes # None =>
        /\ IsDict(uid_nodes)
        /\ DOMAIN uid_nodes.v = DOMAIN optimized_es.nodes
        /\ \A n \in DOMAIN optimized_es.nodes :
            LET label == optimized_es.labels[n]
                uid == uid_nodes.v[n]
            IN  IF label.component = None
                THEN /\ DOMAIN uid = DOMAIN label
                     /\ uid.component =
                            component_type_mapping(optimized_es.nodes[n])
                     /\ \A f \in DOMAIN label \ {"component"} :
                            uid[f] = label[f]
                ELSE uid = label

\* the uids of a link without a component in its label, next to a bus
\* without one and a bus that names its component, have been mapped
C20_Witness ==
    /\ IsDict(uid_nodes)
    /\ optimized_es.nodes[Component] = "Link"
    /\ optimized_es.labels[Component].component = None
    /\ optimized_es.labels["b1"].component = None
    /\ optimized_es.labels["b2"].component # None

\* C21: for every edge the specific flow cost is the first element of the
\* flow's variable_costs, and 0 when the flow has no such attribute; the
\* specific emissions are the flow's emissions, and 0 when it has none.
\* Neither mapping fails for a missing attribute.
C21_DefaultsForMissingAttributes ==
    /\ specific_flow_costs # None =>
        /\ IsDict(specific_flow_costs)
        /\ \A e \in DOMAIN specific_flow_costs.v :
            specific_flow_costs.v[e] =
                IF "variable_costs" \in DOMAIN optimized_es.flows[e]
                THEN optimized_es.flows[e].variable_costs[1]
                ELSE Num(0)
    /\ specific_emissions # None =>
        /\ IsDict(specific_emissions)
        /\ \A e \in DOMAIN specific_emissions.v :
            specific_emissions.v[e] =
                IF "emissions" \in DOMAIN optimized_es.flows[e]
                THEN optimized_es.flows[e].emissions
                ELSE Num(0)

\* the mappings of the operations, in one tuple
Mappings ==
    <<loads, installed_capacities, original_capacities, expansion_costs,
      characteristic_values, states_of_charge, specific_flow_costs,
      specific_emissions, global_results>>

====
